---- MODULE Spec2Model ----
(***************************************************************************)
(* Sentence-segmented streaming synthesis of the Microsoft TTS entity      *)
(* (custom_components/microsoft/tts.py): the SENTENCE_ENDINGS pattern, the *)
(* sentence buffer of data_gen and the per-sentence request/response loop. *)
(* A text is a sequence of Unicode code points.                            *)
(***************************************************************************)
EXTENDS Integers, Sequences, FiniteSets, TLC

\* ------------------------------------------------------------------ bounds
\* The days the clock runs.
MaxDays == 2

MaxLen == 2
MaxChunks == 2

\* ------------------------------------------------- character classes (re)
\* The character class that opens SENTENCE_ENDINGS: . ! ? and the Arabic,
\* Indic, CJK and extended marks, as code points.
TerminalMarks ==
    {33, 46, 63, 1567, 1748, 2404, 2405, 8253, 8263, 8264, 8265,
     12290, 65281, 65311, 65377}

\* [a-z0-9] of the negative lookahead.
IsLowerOrDigit(c) == (c >= 97 /\ c <= 122) \/ (c >= 48 /\ c <= 57)

\* \s of a str pattern, which is also what str.strip() removes; it contains
\* U+3000, so [\s　] is the same class.
Whitespace ==
    {9, 10, 11, 12, 13, 28, 29, 30, 31, 32, 133, 160, 5760,
     8192, 8193, 8194, 8195, 8196, 8197, 8198, 8199, 8200, 8201, 8202,
     8232, 8233, 8239, 8287, 12288}

IsSpace(c) == c \in Whitespace

\* [　-〿一-鿿가-힯] of the positive lookahead.
IsCJKNoCommon(c) ==
    \/ (c >= 12288 /\ c <= 12351)
    \/ (c >= 44032 /\ c <= 55215)

IsCJK(c) ==
    \/ (c >= 12288 /\ c <= 12351)
    \/ (c >= 19968 /\ c <= 40959)
    \/ (c >= 44032 /\ c <= 55215)

\* ------------------------------------------------------- SENTENCE_ENDINGS
\* Last index of the greedy whitespace run [\s　]+ that starts at j.
RECURSIVE SpaceRunEnd(_, _)
SpaceRunEnd(buf, j) ==
    IF j < Len(buf) /\ IsSpace(buf[j + 1]) THEN SpaceRunEnd(buf, j + 1) ELSE j

\* The pattern tried at index i (1-based): match.end() counted in
\* characters, or 0 when the pattern does not match there.
MatchAtNoEnd(buf, i) ==
    IF ~(buf[i] \in TerminalMarks) THEN 0
    ELSE IF i < Len(buf) /\ IsLowerOrDigit(buf[i + 1]) THEN 0
    ELSE IF i < Len(buf) /\ IsSpace(buf[i + 1]) THEN SpaceRunEnd(buf, i + 1)
    ELSE IF i < Len(buf) /\ IsCJK(buf[i + 1]) THEN i
    ELSE 0

MatchAt(buf, i) ==
    IF ~(buf[i] \in TerminalMarks) THEN 0
    ELSE IF i < Len(buf) /\ IsLowerOrDigit(buf[i + 1]) THEN 0
    ELSE IF i < Len(buf) /\ IsSpace(buf[i + 1]) THEN SpaceRunEnd(buf, i + 1)
    ELSE IF i < Len(buf) /\ IsCJK(buf[i + 1]) THEN i
    ELSE IF i = Len(buf) THEN i
    ELSE 0

\* SENTENCE_ENDINGS.search(buf): the leftmost match, as its end; 0 = None.
RECURSIVE SearchFrom(_, _)
SearchFrom(buf, i) ==
    IF i > Len(buf) THEN 0
    ELSE IF MatchAt(buf, i) # 0 THEN MatchAt(buf, i)
    ELSE SearchFrom(buf, i + 1)

Search(buf) == SearchFrom(buf, 1)

\* ---------------------------------------------------------------- strings
RECURSIVE LStrip(_)
LStrip(s) == IF s # <<>> /\ IsSpace(Head(s)) THEN LStrip(Tail(s)) ELSE s

RECURSIVE RStrip(_)
RStrip(s) ==
    IF s # <<>> /\ IsSpace(s[Len(s)]) THEN RStrip(SubSeq(s, 1, Len(s) - 1))
    ELSE s

StripNone(s) == s

\* str.strip()
Strip(s) == LStrip(RStrip(s))

\* sentence_buffer[:sentence_end]
Prefix(buf, end) == SubSeq(buf, 1, end)

\* sentence_buffer[sentence_end:]
SuffixSkip(buf, end) == SubSeq(buf, end + 2, Len(buf))

Suffix(buf, end) == SubSeq(buf, end + 1, Len(buf))

RECURSIVE Concat(_)
Concat(ss) == IF ss = <<>> THEN <<>> ELSE Head(ss) \o Concat(Tail(ss))

\* ------------------------------------------- the segmenter as a function
\* The while loop of data_gen on one buffer: the non-empty sentences it
\* extracts, in order, and the buffer it leaves.
RECURSIVE Extract(_)
Extract(buf) ==
    IF Search(buf) = 0 THEN [sentences |-> <<>>, buffer |-> buf]
    ELSE LET end == Search(buf)
             sentence == Strip(Prefix(buf, end))
             rest == Extract(Suffix(buf, end))
         IN  [sentences |-> (IF sentence = <<>> THEN <<>> ELSE <<sentence>>)
                                \o rest.sentences,
              buffer |-> rest.buffer]

\* The async for loop over the fragments, from a given buffer.
RECURSIVE Feed(_, _)
Feed(buf, frags) ==
    IF frags = <<>> THEN [sentences |-> <<>>, buffer |-> buf]
    ELSE LET one == Extract(buf \o Head(frags))
             rest == Feed(one.buffer, Tail(frags))
         IN  [sentences |-> one.sentences \o rest.sentences,
              buffer |-> rest.buffer]

\* remaining_text of the final block, as a list of zero or one sentence.
Flush(buf) == IF Strip(buf) = <<>> THEN <<>> ELSE <<Strip(buf)>>

\* Every text data_gen synthesizes for a fragment sequence, in order.
Segment(frags) == Feed(<<>>, frags).sentences \o Flush(Feed(<<>>, frags).buffer)

\* ----------------------------------------------------------------- inputs
\* Sample characters: '.', ' ', '5', 'A', U+4F60.
Alphabet == {46, 32, 53, 65, 20320}

Texts == UNION {[1..n -> Alphabet] : n \in 0..MaxLen}

\* The text cut after each index of cuts.
RECURSIVE SplitAt(_, _, _)
SplitAt(text, cuts, from) ==
    IF \E c \in cuts : c >= from
    THEN LET c == CHOOSE x \in cuts : x >= from /\ \A y \in cuts : y >= from => x <= y
         IN  <<SubSeq(text, from, c)>> \o SplitAt(text, cuts, c + 1)
    ELSE IF from <= Len(text) THEN <<SubSeq(text, from, Len(text))>> ELSE <<>>

Chunkings(text) == {SplitAt(text, cuts, 1) : cuts \in SUBSET (1..(Len(text) - 1))}

\* One character per fragment.
Chars(text) == [i \in 1..Len(text) |-> <<text[i]>>]

\* "Hello world. How are you?"
HelloText ==
    <<72, 101, 108, 108, 111, 32, 119, 111, 114, 108, 100, 46, 32,
      72, 111, 119, 32, 97, 114, 101, 32, 121, 111, 117, 63>>

\* "Mr. Smith paid $3.50 today"
MrSmithText ==
    <<77, 114, 46, 32, 83, 109, 105, 116, 104, 32, 112, 97, 105, 100, 32,
      36, 51, 46, 53, 48, 32, 116, 111, 100, 97, 121>>

\* U+4F60 U+597D U+3002 U+4ECA U+5929 U+5929 U+6C14 U+4E0D U+9519
CJKText == <<20320, 22909, 12290, 20170, 22825, 22825, 27668, 19981, 38169>>

\* "Hi. ", "Go! ", "Ok?": three sentences arriving in three fragments.
ThreeFragments == <<<<72, 105, 46, 32>>, <<71, 111, 33, 32>>, <<79, 107, 63>>>>

Examples == {<<HelloText>>, <<MrSmithText>>, <<CJKText>>, ThreeFragments}

Inputs == (UNION {Chunkings(t) : t \in Texts}) \cup Examples

\* ---------------------------------------------------------- option values
\* A Python value of an options dict: t is its type ("absent" when the key
\* is missing), n/d its number, s its characters.  A float n/d with d a
\* power of two is exactly representable, and so are the sums and products
\* the code forms of it.
Value(t, n, d, s) == [t |-> t, n |-> n, d |-> d, s |-> s]

Absent == Value("absent", 0, 1, <<>>)
NoneValue == Value("None", 0, 1, <<>>)
ListValue == Value("list", 0, 1, <<>>)
StrValue(s) == Value("str", 0, 1, s)
IntValue(n) == Value("int", n, 1, <<>>)
FloatValue(n, d) == Value("float", n, d, <<>>)
InfValue == Value("inf", 1, 1, <<>>)
NaNValue == Value("nan", 0, 1, <<>>)

\* options.get(key, default)
Get(options, key, default) ==
    IF options[key].t = "absent" THEN default ELSE options[key]

\* str.lower() on ASCII letters (the locale tags used here are ASCII).
Lower(s) == [i \in 1..Len(s) |-> IF s[i] >= 65 /\ s[i] <= 90 THEN s[i] + 32 ELSE s[i]]

\* ------------------------------------------------------------ voice catalog
Voice(short, locale, gender) ==
    [ShortName |-> short, Locale |-> locale, LocalName |-> short, Gender |-> gender]

\* "Female"
FemaleText == <<70, 101, 109, 97, 108, 101>>

\* "Male"
MaleText == <<77, 97, 108, 101>>

\* _find_azure_locale: found is FALSE for None.
RECURSIVE FindLocaleFromEcho(_, _, _)
FindLocaleFromEcho(voices, language, i) ==
    IF i > Len(voices) THEN [found |-> FALSE, locale |-> <<>>]
    ELSE IF Lower(voices[i].Locale) = Lower(language)
         THEN [found |-> TRUE, locale |-> language]
         ELSE FindLocaleFromEcho(voices, language, i + 1)

RECURSIVE FindLocaleFrom(_, _, _)
FindLocaleFrom(voices, language, i) ==
    IF i > Len(voices) THEN [found |-> FALSE, locale |-> <<>>]
    ELSE IF Lower(voices[i].Locale) = Lower(language)
         THEN [found |-> TRUE, locale |-> voices[i].Locale]
         ELSE FindLocaleFrom(voices, language, i + 1)

find_azure_locale_echo(self, language) ==
    FindLocaleFromEcho(self.voices_data, language, 1)

find_azure_locale(self, language) ==
    IF self.voices_data = <<>> THEN [found |-> FALSE, locale |-> <<>>]
    ELSE FindLocaleFrom(self.voices_data, language, 1)

\* The for loop of the smart voice fallback, from entry i on, voice being
\* the value the variable has before entry i.
RECURSIVE FallbackVoice(_, _, _, _)
FallbackVoice(voices, locale, i, voice) ==
    IF i > Len(voices) THEN voice
    ELSE IF voices[i].Locale = locale
         THEN IF voices[i].Gender = FemaleText
              THEN StrValue(voices[i].ShortName)
              ELSE FallbackVoice(voices, locale, i + 1, StrValue(voices[i].ShortName))
         ELSE FallbackVoice(voices, locale, i + 1, voice)

\* _resolve_voice_and_language
resolve_voice_and_language_always(self, language, options) ==
    LET voice == Get(options, "voice", self.default_voice)
        azure == find_azure_locale(self, language)
        truthy == azure.found /\ azure.locale # <<>>
    IN  [voice |-> IF self.voices_data # <<>> /\ truthy
                      /\ Lower(self.language) # Lower(language)
                   THEN FallbackVoice(self.voices_data, azure.locale, 1, voice)
                   ELSE voice,
         lang_to_use |-> IF truthy THEN azure.locale ELSE language]

resolve_voice_and_language(self, language, options) ==
    LET voice == Get(options, "voice", self.default_voice)
        azure == find_azure_locale(self, language)
        truthy == azure.found /\ azure.locale # <<>>
    IN  [voice |-> IF self.voices_data # <<>> /\ truthy
                      /\ options.voice.t = "absent"
                      /\ Lower(self.language) # Lower(language)
                   THEN FallbackVoice(self.voices_data, azure.locale, 1, voice)
                   ELSE voice,
         lang_to_use |-> IF truthy THEN azure.locale ELSE language]

\* ----------------------------------------------------- numbers and strings
Abs(n) == IF n < 0 THEN -n ELSE n

\* int(a / b) for b > 0: truncation toward zero.
Trunc(a, b) == IF a >= 0 THEN a \div b ELSE -((-a) \div b)

\* round(a / b) for b > 0, ties to the even neighbour as Python 3 rounds.
Round(a, b) ==
    LET q == Abs(a) \div b
        r == Abs(a) % b
        m == IF 2 * r > b \/ (2 * r = b /\ q % 2 = 1) THEN q + 1 ELSE q
    IN  IF a >= 0 THEN m ELSE -m

RECURSIVE Digits(_)
Digits(n) == IF n < 10 THEN <<48 + n>> ELSE Digits(n \div 10) \o <<48 + (n % 10)>>

\* str(n) of an int
IntToStr(n) == IF n < 0 THEN <<45>> \o Digits(-n) ELSE Digits(n)

IsDigit(c) == c >= 48 /\ c <= 57

AllDigits(s) == \A i \in 1..Len(s) : IsDigit(s[i])

RECURSIVE DigitsValue(_)
DigitsValue(s) ==
    IF s = <<>> THEN 0 ELSE 10 * DigitsValue(SubSeq(s, 1, Len(s) - 1)) + (s[Len(s)] - 48)

RECURSIVE Pow10(_)
Pow10(k) == IF k = 0 THEN 1 ELSE 10 * Pow10(k - 1)

\* str.endswith(suffix)
EndsWith(s, suffix) ==
    Len(s) >= Len(suffix) /\ SubSeq(s, Len(s) - Len(suffix) + 1, Len(s)) = suffix

\* A float result: kind "num" (n/d), "inf" or "nan"; exc is the exception
\* float() raises instead.
FloatResult(exc, kind, n, d) == [exc |-> exc, kind |-> kind, n |-> n, d |-> d]

\* float(s) of a str: surrounding whitespace, a sign, then inf, infinity or
\* nan in any case, or digits with at most one point.  (Exponents and
\* underscores, which float() also reads, are not among the sample strings.)
ParseFloat(s) ==
    LET stripped == Strip(s)
        signed == stripped # <<>> /\ Head(stripped) \in {43, 45}
        sign == IF signed /\ Head(stripped) = 45 THEN -1 ELSE 1
        body == IF signed THEN Tail(stripped) ELSE stripped
        dots == {i \in 1..Len(body) : body[i] = 46}
        dot == IF dots = {} THEN Len(body) + 1
               ELSE CHOOSE i \in dots : \A j \in dots : i <= j
        whole == SubSeq(body, 1, dot - 1)
        frac == SubSeq(body, dot + 1, Len(body))
    IN  IF Lower(body) \in {<<105, 110, 102>>,
                            <<105, 110, 102, 105, 110, 105, 116, 121>>}
        THEN FloatResult("none", "inf", sign, 1)
        ELSE IF Lower(body) = <<110, 97, 110>>
        THEN FloatResult("none", "nan", 0, 1)
        ELSE IF AllDigits(whole) /\ AllDigits(frac) /\ Len(whole) + Len(frac) >= 1
        THEN FloatResult("none", "num",
                         sign * (DigitsValue(whole) * Pow10(Len(frac)) + DigitsValue(frac)),
                         Pow10(Len(frac)))
        ELSE FloatResult("ValueError", "nan", 0, 1)

\* float(v)
ToFloat(v) ==
    CASE v.t = "str" -> ParseFloat(v.s)
      [] v.t \in {"int", "float"} -> FloatResult("none", "num", v.n, v.d)
      [] v.t = "inf" -> FloatResult("none", "inf", v.n, 1)
      [] v.t = "nan" -> FloatResult("none", "nan", 0, 1)
      [] OTHER -> FloatResult("TypeError", "nan", 0, 1)

\* bool(v)
Truthy(v) ==
    CASE v.t = "str" -> v.s # <<>>
      [] v.t \in {"int", "float"} -> v.n # 0
      [] v.t \in {"inf", "nan", "list"} -> TRUE
      [] OTHER -> FALSE

\* ------------------------------------------------------- option normalizer
\* "0%"
ZeroPercentText == <<48, 37>>

\* "default"
DefaultText == <<100, 101, 102, 97, 117, 108, 116>>

\* "1"
OneText == <<49>>

\* valid_pitch_names
ValidPitchNames ==
    {<<120, 45, 108, 111, 119>>, <<108, 111, 119>>,
     <<109, 101, 100, 105, 117, 109>>, <<104, 105, 103, 104>>,
     <<120, 45, 104, 105, 103, 104>>, DefaultText}

\* 0.1 <= abs(rate_val) <= 3.0
InMultiplierRange(v) == 10 * Abs(v.n) >= v.d /\ Abs(v.n) <= 3 * v.d

\* f"{'+' if percent >= 0 else ''}{percent}%"
SignedPercent(percent) ==
    (IF percent >= 0 THEN <<43>> ELSE <<>>) \o IntToStr(percent) \o <<37>>

\* The smart rate handling: the new rate, or the exception int() raises.
NormalizeRate(rate) ==
    IF ~(rate.t \in {"int", "float", "inf", "nan"})
    THEN [exc |-> "none", value |-> rate]
    ELSE IF rate.t = "float" /\ InMultiplierRange(rate)
    THEN [exc |-> "none",
          value |-> StrValue(SignedPercent(Trunc((rate.n - rate.d) * 100, rate.d)))]
    ELSE IF rate.t = "inf" THEN [exc |-> "OverflowError", value |-> rate]
    ELSE IF rate.t = "nan" THEN [exc |-> "ValueError", value |-> rate]
    ELSE [exc |-> "none",
          value |-> StrValue(IntToStr(Trunc(rate.n, rate.d)) \o <<37>>)]

\* The pitch validation.
NormalizePitch(pitch) ==
    IF /\ pitch.t = "str"
       /\ ~(Lower(pitch.s) \in ValidPitchNames)
       /\ ~(EndsWith(pitch.s, <<37>>) \/ EndsWith(pitch.s, <<72, 122>>))
    THEN StrValue(DefaultText)
    ELSE pitch

\* 0.01 <= degree_val <= 2.0
InDegreeRangeNoUpper(f) == f.kind = "num" /\ 100 * f.n >= f.d

InDegreeRange(f) == f.kind = "num" /\ 100 * f.n >= f.d /\ f.n <= 2 * f.d

\* The style_degree validation.
NormalizeStyleDegree(degree) ==
    IF ~Truthy(degree) THEN degree
    ELSE IF ToFloat(degree).exc # "none" THEN StrValue(OneText)
    ELSE IF ~InDegreeRange(ToFloat(degree)) THEN StrValue(OneText)
    ELSE degree

\* _normalize_prosody_options: the dict it returns, or the exception (exc)
\* that leaves it.
normalize_prosody_options(self, options) ==
    LET rate == Get(options, "rate", Get(self.options, "rate", StrValue(ZeroPercentText)))
        pitch == Get(options, "pitch", Get(self.options, "pitch", StrValue(DefaultText)))
        volume == Get(options, "volume", Get(self.options, "volume", StrValue(DefaultText)))
        style == Get(options, "style", Get(self.options, "style", StrValue(<<>>)))
        degree == Get(options, "styledegree",
                      Get(self.options, "styledegree", StrValue(OneText)))
        role == Get(options, "role", Get(self.options, "role", StrValue(<<>>)))
    IN  [exc |-> NormalizeRate(rate).exc,
         rate |-> NormalizeRate(rate).value,
         pitch |-> NormalizePitch(pitch),
         volume |-> volume,
         style |-> style,
         style_degree |-> NormalizeStyleDegree(degree),
         role |-> role]

\* ----------------------------------------------------------- markup builder
\* SSML_NAMESPACE = "https://www.w3.org/2001/mstts"
SSML_NAMESPACE ==
    <<104, 116, 116, 112, 115, 58, 47, 47, 119, 119, 119, 46, 119, 51, 46,
      111, 114, 103, 47, 50, 48, 48, 49, 47, 109, 115, 116, 116, 115>>

\* <speak version='1.0' xmlns:mstts='
SpeakOpenText ==
    <<60, 115, 112, 101, 97, 107, 32, 118, 101, 114, 115, 105, 111, 110, 61,
      39, 49, 46, 48, 39, 32, 120, 109, 108, 110, 115, 58, 109, 115, 116,
      116, 115, 61, 39>>

\* ' xml:lang='
XmlLangText ==
    <<39, 32, 120, 109, 108, 58, 108, 97, 110, 103, 61, 39>>

\* '>
QuoteCloseText ==
    <<39, 62>>

\* <voice xml:lang='
VoiceOpenText ==
    <<60, 118, 111, 105, 99, 101, 32, 120, 109, 108, 58, 108, 97, 110, 103,
      61, 39>>

\* ' name='
NameText ==
    <<39, 32, 110, 97, 109, 101, 61, 39>>

\* <mstts:express-as style='
ExpressAsOpenText ==
    <<60, 109, 115, 116, 116, 115, 58, 101, 120, 112, 114, 101, 115, 115,
      45, 97, 115, 32, 115, 116, 121, 108, 101, 61, 39>>

\* " role='"
RoleText ==
    <<32, 114, 111, 108, 101, 61, 39>>

\* " styledegree='"
StyleDegreeText ==
    <<32, 115, 116, 121, 108, 101, 100, 101, 103, 114, 101, 101, 61, 39>>

\* <prosody rate='
ProsodyOpenText ==
    <<60, 112, 114, 111, 115, 111, 100, 121, 32, 114, 97, 116, 101, 61, 39>>

\* ' pitch='
PitchText ==
    <<39, 32, 112, 105, 116, 99, 104, 61, 39>>

\* ' volume='
VolumeText ==
    <<39, 32, 118, 111, 108, 117, 109, 101, 61, 39>>

\* </prosody>
ProsodyCloseText ==
    <<60, 47, 112, 114, 111, 115, 111, 100, 121, 62>>

\* </mstts:express-as>
ExpressAsCloseText ==
    <<60, 47, 109, 115, 116, 116, 115, 58, 101, 120, 112, 114, 101, 115,
      115, 45, 97, 115, 62>>

\* </voice></speak>
VoiceSpeakCloseText ==
    <<60, 47, 118, 111, 105, 99, 101, 62, 60, 47, 115, 112, 101, 97, 107, 62>>

\* str.replace(c, by) for a single character c.
RECURSIVE ReplaceChar(_, _, _)
ReplaceChar(s, c, by) ==
    IF s = <<>> THEN <<>>
    ELSE (IF Head(s) = c THEN by ELSE <<Head(s)>>) \o ReplaceChar(Tail(s), c, by)

\* xml.sax.saxutils.escape(data): & first, then > and <.
SaxEscapeAmpLast(data) ==
    ReplaceChar(ReplaceChar(ReplaceChar(data, 62, <<38, 103, 116, 59>>),
                            60, <<38, 108, 116, 59>>),
                38, <<38, 97, 109, 112, 59>>)

SaxEscape(data) ==
    ReplaceChar(ReplaceChar(ReplaceChar(data, 38, <<38, 97, 109, 112, 59>>),
                            62, <<38, 103, 116, 59>>),
                60, <<38, 108, 116, 59>>)

\* escape(message).replace('"', "&quot;")
EscapeText(message) == ReplaceChar(SaxEscape(message), 34, <<38, 113, 117, 111, 116, 59>>)

\* The digits of a fraction of 10000 without trailing zeros, at least one.
RECURSIVE FractionDigits(_, _)
FractionDigits(frac, width) ==
    IF width > 1 /\ frac % 10 = 0 THEN FractionDigits(frac \div 10, width - 1)
    ELSE [i \in 1..width |-> 48 + ((frac \div Pow10(width - i)) % 10)]

\* repr(x) of a finite float n/d with at most four decimals.
FloatToStr(n, d) ==
    LET scaled == (Abs(n) * 10000) \div d
    IN  (IF n < 0 THEN <<45>> ELSE <<>>)
            \o Digits(scaled \div 10000) \o <<46>>
            \o FractionDigits(scaled % 10000, 4)

\* What an f-string puts for {v}.
Format(v) ==
    CASE v.t = "str" -> v.s
      [] v.t = "int" -> IntToStr(v.n)
      [] v.t = "float" -> FloatToStr(v.n, v.d)
      [] v.t = "inf" -> IF v.n < 0 THEN <<45, 105, 110, 102>> ELSE <<105, 110, 102>>
      [] v.t = "nan" -> <<110, 97, 110>>
      [] v.t = "list" -> <<91, 49, 93>>
      [] OTHER -> <<78, 111, 110, 101>>

\* _build_ssml
build_ssml(message, voice, language, prosody_options) ==
    LET style == Truthy(prosody_options.style)
    IN  SpeakOpenText \o SSML_NAMESPACE \o XmlLangText \o language \o QuoteCloseText
        \o VoiceOpenText \o language \o NameText \o Format(voice) \o QuoteCloseText
        \o (IF style
            THEN ExpressAsOpenText \o Format(prosody_options.style) \o <<39>>
                 \o (IF Truthy(prosody_options.role)
                     THEN RoleText \o Format(prosody_options.role) \o <<39>>
                     ELSE <<>>)
                 \o (IF Truthy(prosody_options.style_degree)
                     THEN StyleDegreeText \o Format(prosody_options.style_degree) \o <<39>>
                     ELSE <<>>)
                 \o <<62>>
            ELSE <<>>)
        \o ProsodyOpenText \o Format(prosody_options.rate)
        \o PitchText \o Format(prosody_options.pitch)
        \o VolumeText \o Format(prosody_options.volume) \o QuoteCloseText
        \o EscapeText(message)
        \o ProsodyCloseText
        \o (IF style THEN ExpressAsCloseText ELSE <<>>)
        \o VoiceSpeakCloseText

\* ------------------------------------------------------------------ state
VARIABLES
    fragments,        \* the texts request.message_gen will produce, in order
    input,            \* the fragments message_gen has not produced yet
    sentence_buffer,  \* data_gen's sentence_buffer
    pc,               \* where data_gen is suspended
    requests,         \* the text of every POST issued so far, in order
    responses,        \* what became of each request
    open,             \* indices of the requests whose response is not closed
    output,           \* the chunks yielded so far: <<request, chunk number>>
    fault,            \* the exception that ended the generator, if any
    entity,           \* the AzureTTSEntity the call is made on (self)
    call,             \* the call being served: method and arguments
    frame,            \* the call's position and local variables
    ret,              \* what the call gave back: a result or an exception
    built,            \* the voice, locale and options each request was built with
    hass,             \* hass.data[DOMAIN]: the voices_cache entry
    now               \* time.time()

vars == <<fragments, input, sentence_buffer, pc, requests, responses, open,
          output, fault, entity, call, frame, ret, built, hass, now>>

\* The variables of data_gen, and those of the call that made it.
streamVars == <<fragments, input, sentence_buffer, pc, output, fault>>

callVars == <<entity, call, frame, ret>>

\* The catalog cache and the clock.
hassVars == <<hass, now>>

\* What a request leaves behind.
requestVars == <<requests, responses, open, built>>

\* Response statuses the remote may answer with.
Statuses == {200, 400}

\* Exceptions an await may raise: aiohttp.ClientError, or anything else.
Exceptions == {"ClientError", "Exception"}

\* Index of the request being served.
cur == Len(requests)

\* status is 0 until the response status has arrived.
Response(kind, status, n) == [kind |-> kind, status |-> status, received |-> n]

\* ------------------------------------------------------- entity and calls
\* hass.data without a voices_cache entry.
NoCache == [cached |-> FALSE, voices |-> <<>>, time |-> 0, key |-> "", region |-> ""]

\* The longest voice catalog.
MaxVoices == 3

\* "en-US"
EnUSText == <<101, 110, 45, 85, 83>>

\* "it-IT"
ItITText == <<105, 116, 45, 73, 84>>

\* "it-it"
ItItLowerText == <<105, 116, 45, 105, 116>>

\* "en-us"
EnUsLowerText == <<101, 110, 45, 117, 115>>

\* "fr-FR"
FrFRText == <<102, 114, 45, 70, 82>>

\* "en-US-JennyNeural"
JennyText ==
    <<101, 110, 45, 85, 83, 45, 74, 101, 110, 110, 121, 78, 101, 117, 114, 97, 108>>

\* "it-IT-ElsaNeural"
ElsaText ==
    <<105, 116, 45, 73, 84, 45, 69, 108, 115, 97, 78, 101, 117, 114, 97, 108>>

\* "mp3"
Mp3Text == <<109, 112, 51>>

\* "ogg"
OggText == <<111, 103, 103>>

DEFAULT_OUTPUT_FORMAT == "audio-24khz-96kbitrate-mono-mp3"

DEFAULT_REGION == "eastus"

\* The keys of AUDIO_FORMATS.
AUDIO_FORMATS ==
    {"audio-24khz-96kbitrate-mono-mp3", "audio-48khz-192kbitrate-mono-mp3",
     "audio-24khz-48kbitrate-mono-mp3", "audio-16khz-128kbitrate-mono-mp3",
     "audio-16khz-64kbitrate-mono-mp3", "ogg-24khz-16bit-mono-opus",
     "ogg-48khz-16bit-mono-opus", "webm-24khz-16bit-mono-opus",
     "raw-8khz-8bit-mono-mulaw", "raw-8khz-8bit-mono-alaw",
     "g722-16khz-64kbps", "amr-wb-16000hz"}

\* The profiles whose audio is MP3.
Mp3Formats ==
    {"audio-24khz-96kbitrate-mono-mp3", "audio-48khz-192kbitrate-mono-mp3",
     "audio-24khz-48kbitrate-mono-mp3", "audio-16khz-128kbitrate-mono-mp3",
     "audio-16khz-64kbitrate-mono-mp3"}

\* An options dict without any key.
NoOptions ==
    [voice |-> Absent, rate |-> Absent, pitch |-> Absent, volume |-> Absent,
     style |-> Absent, styledegree |-> Absent, role |-> Absent]

\* The fields of self the calls read; options is config_entry.options.
Entity(language, default_voice, output_format, options, voices_data) ==
    [language |-> language, default_voice |-> default_voice,
     output_format |-> output_format, options |-> options,
     voices_data |-> voices_data, apikey |-> "key-A", region |-> DEFAULT_REGION]

\* method is "get" for async_get_tts_audio, "stream" for
\* async_stream_tts_audio (whose text comes from request.message_gen).
Call(method, message, language, options) ==
    [method |-> method, message |-> message, language |-> language,
     options |-> options]

Methods == {"get", "stream"}

\* The locals of a call; body is the number of chunks of the response body.
Frame(at, voice, lang_to_use, prosody_options, xml_doc, body) ==
    [pc |-> at, voice |-> voice, lang_to_use |-> lang_to_use,
     prosody_options |-> prosody_options, xml_doc |-> xml_doc, body |-> body]

\* bytes of n chunks, and the data_gen() generator object.
BytesValue(n) == Value("bytes", n, 1, <<>>)

DataGenValue == Value("data_gen", 0, 1, <<>>)

NoResult == [kind |-> "none", extension |-> Absent, data |-> Absent, exc |-> "none"]

Return(extension, data) ==
    [kind |-> "return", extension |-> extension, data |-> data, exc |-> "none"]

Raised(exc) == [kind |-> "raise", extension |-> Absent, data |-> Absent, exc |-> exc]

\* return "mp3", data and TTSAudioResponse(extension="mp3", ...): the tag is
\* a literal, whatever self._output_format is.
ExtensionOfFormat(self) ==
    IF self.output_format \in Mp3Formats THEN StrValue(Mp3Text) ELSE StrValue(OggText)

Extension(self) == StrValue(Mp3Text)

\* Voice names by position in the catalog: "V1", "V2", ...
VoiceName(i) == <<86, 48 + i>>

Locales == {ItITText, EnUSText}

Genders == {FemaleText, MaleText}

\* The catalogs of at most MaxVoices voices, in the order Azure lists them.
Catalogs ==
    UNION {{[i \in 1..n |-> Voice(VoiceName(i), f[i][1], f[i][2])] :
              f \in [1..n -> Locales \X Genders]} : n \in 0..MaxVoices}

Languages == {ItItLowerText, ItITText, EnUsLowerText, FrFRText}

\* The entity as configured by default, with the given catalog.
DefaultEntity(voices) ==
    Entity(EnUSText, StrValue(JennyText), DEFAULT_OUTPUT_FORMAT, NoOptions, voices)

\* Calls that exercise the voice resolver.
ResolverScenarios ==
    {[entity |-> DefaultEntity(voices),
      call |-> Call(m, <<97>>, language, [NoOptions EXCEPT !.voice = voice])] :
        voices \in Catalogs, m \in Methods, language \in Languages,
        voice \in {Absent, StrValue(ElsaText)}}

\* Raw rate values: absent, "10%", 50, 2, 0, 0.875, 1.1875, 1.375, 3.0,
\* 3.0625, 50.0, inf, nan.
RateSamples ==
    {Absent, StrValue(<<49, 48, 37>>), IntValue(50), IntValue(2), IntValue(0),
     FloatValue(14, 16), FloatValue(19, 16), FloatValue(22, 16),
     FloatValue(48, 16), FloatValue(49, 16), FloatValue(800, 16),
     InfValue, NaNValue}

\* Raw pitch values: absent, "HIGH", "+5%", "50Hz", "loud", 5, None.
PitchSamples ==
    {Absent, StrValue(<<72, 73, 71, 72>>), StrValue(<<43, 53, 37>>),
     StrValue(<<53, 48, 72, 122>>), StrValue(<<108, 111, 117, 100>>),
     IntValue(5), NoneValue}

\* Raw style degrees: absent, "5", "0.5", "abc", "0", "-1", "", "nan", 0,
\* 0.0, 1.5, 3, None, a list.
DegreeSamples ==
    {Absent, StrValue(<<53>>), StrValue(<<48, 46, 53>>), StrValue(<<97, 98, 99>>),
     StrValue(<<48>>), StrValue(<<45, 49>>), StrValue(<<>>),
     StrValue(<<110, 97, 110>>), IntValue(0), FloatValue(0, 16),
     FloatValue(24, 16), IntValue(3), NoneValue, ListValue}

\* "sad"
SadText == <<115, 97, 100>>

\* "Girl"
GirlText == <<71, 105, 114, 108>>

\* "sad' role='Girl": a style value with apostrophes in it
QuotedStyleText ==
    <<115, 97, 100, 39, 32, 114, 111, 108, 101, 61, 39, 71, 105, 114, 108>>

\* config_entry.options with prosody values of its own.
ConfiguredOptions ==
    [NoOptions EXCEPT !.rate = StrValue(<<49, 48, 37>>),
                      !.pitch = StrValue(<<108, 111, 117, 100>>),
                      !.styledegree = StrValue(<<53>>)]

\* Calls that exercise the option normalizer.
NormalizerScenarios ==
    {[entity |-> Entity(EnUSText, StrValue(JennyText), DEFAULT_OUTPUT_FORMAT,
                        options, <<>>),
      call |-> Call(m, <<97>>, EnUSText,
                    [NoOptions EXCEPT !.rate = rate, !.pitch = pitch])] :
        options \in {NoOptions, ConfiguredOptions}, m \in Methods,
        rate \in RateSamples, pitch \in PitchSamples}
    \cup
    {[entity |-> DefaultEntity(<<>>),
      call |-> Call(m, <<97>>, EnUSText,
                    [NoOptions EXCEPT !.styledegree = degree, !.style = style])] :
        m \in Methods, degree \in DegreeSamples,
        style \in {Absent, StrValue(SadText)}}

\* The characters of the messages: a & < > " ;
MessageAlphabet == {97, 38, 60, 62, 34, 59}

Messages == UNION {[1..n -> MessageAlphabet] : n \in 0..MaxLen}

\* Calls that exercise the markup builder and the output format profiles.
BuilderScenarios ==
    {[entity |-> Entity(EnUSText, StrValue(JennyText), format, NoOptions, <<>>),
      call |-> Call("get", message, EnUSText,
                    [NoOptions EXCEPT !.style = style, !.role = role])] :
        format \in {DEFAULT_OUTPUT_FORMAT}, message \in Messages,
        style \in {Absent, StrValue(SadText), StrValue(QuotedStyleText)},
        role \in {Absent, StrValue(GirlText)}}
    \cup
    {[entity |-> Entity(EnUSText, StrValue(JennyText), format, NoOptions, <<>>),
      call |-> Call(m, <<97>>, EnUSText, NoOptions)] :
        format \in AUDIO_FORMATS, m \in Methods}

Scenarios == ResolverScenarios \cup NormalizerScenarios \cup BuilderScenarios

\* The fields of the dict _normalize_prosody_options returns.
ProsodyOptions(n) ==
    [rate |-> n.rate, pitch |-> n.pitch, volume |-> n.volume, style |-> n.style,
     style_degree |-> n.style_degree, role |-> n.role]

NoProsody ==
    [rate |-> Absent, pitch |-> Absent, volume |-> Absent, style |-> Absent,
     style_degree |-> Absent, role |-> Absent]

\* The call that made the data_gen the streaming specification runs: a
\* streaming request in the default language on the default entity.
StreamEntity == DefaultEntity(<<>>)

StreamCall == Call("stream", <<>>, EnUSText, NoOptions)

StreamFrame ==
    Frame("returned",
          resolve_voice_and_language(StreamEntity, EnUSText, NoOptions).voice,
          resolve_voice_and_language(StreamEntity, EnUSText, NoOptions).lang_to_use,
          ProsodyOptions(normalize_prosody_options(StreamEntity, NoOptions)),
          <<>>, 0)


Init ==
    /\ fragments \in Inputs
    /\ input = fragments
    /\ sentence_buffer = <<>>
    /\ pc = "fragment"
    /\ requests = <<>>
    /\ responses = <<>>
    /\ open = {}
    /\ output = <<>>
    /\ fault = "none"
    /\ entity = StreamEntity
    /\ call = StreamCall
    /\ frame = StreamFrame
    /\ ret = Return(Extension(StreamEntity), DataGenValue)
    /\ built = <<>>
    /\ hass = NoCache
    /\ now = 0

\* ------------------------------------------------------ pieces of data_gen
\* self._build_ssml(sentence, voice, lang_to_use, prosody_options): the
\* closure reads the locals of the call that made it.
RequestParamsResolved ==
    [voice |-> resolve_voice_and_language(entity, call.language, call.options).voice,
     language |-> resolve_voice_and_language(entity, call.language,
                                             call.options).lang_to_use,
     prosody_options |-> frame.prosody_options]

RequestParams ==
    [voice |-> frame.voice, language |-> frame.lang_to_use,
     prosody_options |-> frame.prosody_options]

\* The same text posted twice, the first response already read.
PostTwice(text) ==
    /\ requests' = requests \o <<text, text>>
    /\ built' = built \o <<RequestParams, RequestParams>>
    /\ responses' = responses \o <<Response("complete", 200, 0),
                                   Response("open", 0, 0)>>
    /\ open' = open \cup {Len(requests) + 2}

\* self._session.post(...) entered: one request, its response open.
Post(text) ==
    /\ requests' = Append(requests, text)
    /\ built' = Append(built, RequestParams)
    /\ responses' = Append(responses, Response("open", 0, 0))
    /\ open' = open \cup {Len(requests) + 1}

\* Leaving the async with block closes the response.
ReleaseLeak(o, r) == o

Release(o, r) == o \ {r}

\* yield audio_chunk
EmitFirst(out, chunk) == <<chunk>> \o out

Emit(out, chunk) == Append(out, chunk)

\* if response.status != 200: ... continue
AfterStatusAlwaysBody(status) == "body"

AfterStatusStop(status) == IF status # 200 THEN "done" ELSE "body"

AfterStatus(status) == IF status # 200 THEN "scan" ELSE "body"

\* if response.status == 200: ... else: log
AfterFinalStatusAlwaysBody(status) == "final_body"

AfterFinalStatus(status) == IF status = 200 THEN "final_body" ELSE "done"

\* except aiohttp.ClientError: continue; anything else reaches the outer
\* except Exception: raise.
OnSentenceFaultBreak(exc) == IF exc = "ClientError" THEN "done" ELSE "raised"

OnSentenceFault(exc) == IF exc = "ClientError" THEN "scan" ELSE "raised"

\* except aiohttp.ClientError of the final block; anything else is raised.
OnFinalFaultRaise(exc) == "raised"

OnFinalFault(exc) == IF exc = "ClientError" THEN "done" ELSE "raised"

\* The response is closed with the given result; data_gen goes on at next.
Close(kind, status, next) ==
    /\ responses' = [responses EXCEPT ![cur] =
                        Response(kind, status, responses[cur].received)]
    /\ open' = Release(open, cur)
    /\ pc' = next

\* The block is left without an exception.
Leave(kind, status, next) ==
    /\ Close(kind, status, next)
    /\ UNCHANGED fault

\* An await inside the async with block raises exc; fault is the exception
\* that leaves data_gen, if the handlers let it through.
Raise(exc, status, next) ==
    /\ Close(IF exc = "ClientError" THEN "transport_error" ELSE "internal_error",
             status, next)
    /\ fault' = IF next = "raised" THEN exc ELSE fault

\* ---------------------------------------------------------------- actions
\* async for text_chunk in request.message_gen: sentence_buffer += text_chunk
NextFragment ==
    /\ UNCHANGED callVars
    /\ UNCHANGED hassVars
    /\ pc = "fragment"
    /\ input # <<>>
    /\ sentence_buffer' = sentence_buffer \o Head(input)
    /\ input' = Tail(input)
    /\ pc' = "scan"
    /\ UNCHANGED <<fragments, requests, built, responses, open, output, fault>>

\* message_gen is exhausted: the loop ends.
SourceEnds ==
    /\ UNCHANGED callVars
    /\ UNCHANGED hassVars
    /\ pc = "fragment"
    /\ input = <<>>
    /\ pc' = "flush"
    /\ UNCHANGED <<fragments, input, sentence_buffer, requests, built, responses,
                   open, output, fault>>

\* message_gen raises: except Exception logs and re-raises.
SourceRaises ==
    /\ UNCHANGED callVars
    /\ UNCHANGED hassVars
    /\ pc = "fragment"
    /\ pc' = "raised"
    /\ fault' = "Exception"
    /\ UNCHANGED <<fragments, input, sentence_buffer, requests, built, responses,
                   open, output>>

\* One turn of while match := SENTENCE_ENDINGS.search(sentence_buffer).
Scan ==
    /\ UNCHANGED callVars
    /\ UNCHANGED hassVars
    /\ pc = "scan"
    /\ LET end == Search(sentence_buffer)
           sentence == Strip(Prefix(sentence_buffer, end))
       IN  IF end = 0
           THEN /\ pc' = "fragment"
                /\ UNCHANGED <<sentence_buffer, requests, built, responses, open>>
           ELSE /\ sentence_buffer' = Suffix(sentence_buffer, end)
                /\ IF sentence = <<>>
                   THEN /\ pc' = "scan"
                        /\ UNCHANGED <<requests, built, responses, open>>
                   ELSE /\ Post(sentence)
                        /\ pc' = "status"
    /\ UNCHANGED <<fragments, input, output, fault>>

\* The response of a sentence arrives with a status, or the POST fails.
SentenceStatus ==
    /\ UNCHANGED callVars
    /\ UNCHANGED hassVars
    /\ pc = "status"
    /\ \/ \E status \in Statuses :
            IF AfterStatus(status) = "body"
            THEN /\ responses' = [responses EXCEPT ![cur].status = status]
                 /\ pc' = "body"
                 /\ UNCHANGED <<open, fault>>
            ELSE \* await response.text() gives the text, or raises
                 \/ Leave("status_error", status, AfterStatus(status))
                 \/ \E exc \in Exceptions : Raise(exc, status, OnSentenceFault(exc))
       \/ \E exc \in Exceptions : Raise(exc, 0, OnSentenceFault(exc))
    /\ UNCHANGED <<fragments, input, sentence_buffer, requests, built, output>>

\* async for audio_chunk in response.content.iter_chunked(...): yield
SentenceChunk ==
    /\ UNCHANGED callVars
    /\ UNCHANGED hassVars
    /\ pc = "body"
    /\ \/ /\ responses[cur].received < MaxChunks
          /\ responses' = [responses EXCEPT ![cur].received = @ + 1]
          /\ output' = Emit(output, <<cur, responses[cur].received + 1>>)
          /\ UNCHANGED <<pc, open, fault>>
       \/ /\ Leave("complete", responses[cur].status, "scan")
          /\ UNCHANGED output
       \/ /\ \E exc \in Exceptions : Raise(exc, responses[cur].status, OnSentenceFault(exc))
          /\ UNCHANGED output
    /\ UNCHANGED <<fragments, input, sentence_buffer, requests, built>>

\* remaining_text = sentence_buffer.strip(); if remaining_text: POST
FlushRemaining ==
    /\ UNCHANGED callVars
    /\ UNCHANGED hassVars
    /\ pc = "flush"
    /\ IF Flush(sentence_buffer) = <<>>
       THEN /\ pc' = "done"
            /\ UNCHANGED <<requests, built, responses, open>>
       ELSE /\ Post(Flush(sentence_buffer)[1])
            /\ pc' = "final_status"
    /\ UNCHANGED <<fragments, input, sentence_buffer, output, fault>>

\* The response of the final text arrives with a status, or the POST fails.
FinalStatus ==
    /\ UNCHANGED callVars
    /\ UNCHANGED hassVars
    /\ pc = "final_status"
    /\ \/ \E status \in Statuses :
            IF AfterFinalStatus(status) = "final_body"
            THEN /\ responses' = [responses EXCEPT ![cur].status = status]
                 /\ pc' = "final_body"
                 /\ UNCHANGED <<open, fault>>
            ELSE \/ Leave("status_error", status, AfterFinalStatus(status))
                 \/ \E exc \in Exceptions : Raise(exc, status, OnFinalFault(exc))
       \/ \E exc \in Exceptions : Raise(exc, 0, OnFinalFault(exc))
    /\ UNCHANGED <<fragments, input, sentence_buffer, requests, built, output>>

\* The body of the final response is streamed.
FinalChunk ==
    /\ UNCHANGED callVars
    /\ UNCHANGED hassVars
    /\ pc = "final_body"
    /\ \/ /\ responses[cur].received < MaxChunks
          /\ responses' = [responses EXCEPT ![cur].received = @ + 1]
          /\ output' = Emit(output, <<cur, responses[cur].received + 1>>)
          /\ UNCHANGED <<pc, open, fault>>
       \/ /\ Leave("complete", responses[cur].status, "done")
          /\ UNCHANGED output
       \/ /\ \E exc \in Exceptions : Raise(exc, responses[cur].status, OnFinalFault(exc))
          /\ UNCHANGED output
    /\ UNCHANGED <<fragments, input, sentence_buffer, requests, built>>

Next ==
    \/ NextFragment
    \/ SourceEnds
    \/ SourceRaises
    \/ Scan
    \/ SentenceStatus
    \/ SentenceChunk
    \/ FlushRemaining
    \/ FinalStatus
    \/ FinalChunk

Spec == Init /\ [][Next]_vars

\* The event loop resumes data_gen whenever the awaited fragment, status or
\* chunk is there, every await of a finite source or body ends, and the
\* consumer keeps iterating over the chunks.
FairSpec == Spec /\ WF_vars(Next)

\* ------------------------------------------- the calls, up to their result
\* A call starts on an entity whose catalog was fetched; no request yet and
\* data_gen, if the call makes one, not yet iterated.
CallInit ==
    /\ \E sc \in Scenarios :
          /\ entity = sc.entity
          /\ call = sc.call
    /\ frame = Frame("resolve", Absent, <<>>, NoProsody, <<>>, 0)
    /\ ret = NoResult
    /\ built = <<>>
    /\ hass = NoCache
    /\ now = 0
    /\ fragments = <<>>
    /\ input = <<>>
    /\ sentence_buffer = <<>>
    /\ pc = "fragment"
    /\ requests = <<>>
    /\ responses = <<>>
    /\ open = {}
    /\ output = <<>>
    /\ fault = "none"

\* except aiohttp.ClientError: return None, None; anything else leaves the
\* call.
OnCallFaultRaise(exc) == "raised"

OnCallFault(exc) == IF exc = "ClientError" THEN "returned" ELSE "raised"

\* What the call gives back when an await of the request raises exc.
CallFault(exc) ==
    IF OnCallFault(exc) = "returned" THEN Return(NoneValue, NoneValue) ELSE Raised(exc)

\* The response of the call's request is closed and the call ends with
\* result.
Finish(kind, status, result) ==
    /\ responses' = [responses EXCEPT ![cur] =
                        Response(kind, status, responses[cur].received)]
    /\ open' = Release(open, cur)
    /\ frame' = [frame EXCEPT !.pc = IF result.kind = "raise" THEN "raised"
                                     ELSE "returned"]
    /\ ret' = result

\* An await of the request raises exc.
Fail(exc, status) ==
    Finish(IF exc = "ClientError" THEN "transport_error" ELSE "internal_error",
           status, CallFault(exc))

\* voice, lang_to_use = self._resolve_voice_and_language(language, options)
Resolve ==
    /\ frame.pc = "resolve"
    /\ LET r == resolve_voice_and_language(entity, call.language, call.options)
       IN  frame' = [frame EXCEPT !.pc = "normalize", !.voice = r.voice,
                                  !.lang_to_use = r.lang_to_use]
    /\ UNCHANGED <<entity, call, ret, requests, built, responses, open>>
    /\ UNCHANGED streamVars
    /\ UNCHANGED hassVars

\* prosody_options = self._normalize_prosody_options(options); an exception
\* of the helper leaves the call.
Normalize ==
    /\ frame.pc = "normalize"
    /\ LET n == normalize_prosody_options(entity, call.options)
       IN  IF n.exc # "none"
           THEN /\ frame' = [frame EXCEPT !.pc = "raised"]
                /\ ret' = Raised(n.exc)
           ELSE /\ frame' = [frame EXCEPT
                                !.pc = IF call.method = "get" THEN "build"
                                       ELSE "stream_return",
                                !.prosody_options = ProsodyOptions(n)]
                /\ UNCHANGED ret
    /\ UNCHANGED <<entity, call, requests, built, responses, open>>
    /\ UNCHANGED streamVars
    /\ UNCHANGED hassVars

\* xml_doc = self._build_ssml(message, voice, lang_to_use, prosody_options)
Build ==
    /\ frame.pc = "build"
    /\ frame' = [frame EXCEPT
                    !.pc = "post",
                    !.xml_doc = build_ssml(call.message, frame.voice,
                                           frame.lang_to_use, frame.prosody_options)]
    /\ UNCHANGED <<entity, call, ret, requests, built, responses, open>>
    /\ UNCHANGED streamVars
    /\ UNCHANGED hassVars

\* async with self._session.post(url, headers=headers, data=xml_doc...)
CallPost ==
    /\ frame.pc = "post"
    /\ Post(frame.xml_doc)
    /\ frame' = [frame EXCEPT !.pc = "status"]
    /\ UNCHANGED <<entity, call, ret>>
    /\ UNCHANGED streamVars
    /\ UNCHANGED hassVars

\* The response arrives with a status and a body of some chunks, or the POST
\* fails; a status other than 200 is logged with the response text.
CallStatus ==
    /\ frame.pc = "status"
    /\ \/ \E body \in 0..MaxChunks :
            /\ responses' = [responses EXCEPT ![cur].status = 200]
            /\ frame' = [frame EXCEPT !.pc = "read", !.body = body]
            /\ UNCHANGED <<open, ret>>
       \/ \E status \in Statuses \ {200} :
            \/ Finish("status_error", status, Return(NoneValue, NoneValue))
            \/ \E exc \in Exceptions : Fail(exc, status)
       \/ \E exc \in Exceptions : Fail(exc, 0)
    /\ UNCHANGED <<entity, call, requests, built>>
    /\ UNCHANGED streamVars
    /\ UNCHANGED hassVars

\* data = await response.read(), then return "mp3", data: the whole body is
\* read before the call returns, or the read fails after some chunks.
CallRead ==
    /\ frame.pc = "read"
    /\ \/ /\ responses[cur].received < frame.body
          /\ responses' = [responses EXCEPT ![cur].received = @ + 1]
          /\ UNCHANGED <<open, frame, ret>>
       \/ /\ responses[cur].received = frame.body
          /\ Finish("complete", 200,
                    Return(Extension(entity), BytesValue(responses[cur].received)))
       \/ \E exc \in Exceptions : Fail(exc, 200)
    /\ UNCHANGED <<entity, call, requests, built>>
    /\ UNCHANGED streamVars
    /\ UNCHANGED hassVars

\* return TTSAudioResponse(extension="mp3", data_gen=data_gen())
StreamReturn ==
    /\ frame.pc = "stream_return"
    /\ frame' = [frame EXCEPT !.pc = "returned"]
    /\ ret' = Return(Extension(entity), DataGenValue)
    /\ UNCHANGED <<entity, call, requests, built, responses, open>>
    /\ UNCHANGED streamVars
    /\ UNCHANGED hassVars

CallNext ==
    \/ Resolve
    \/ Normalize
    \/ Build
    \/ CallPost
    \/ CallStatus
    \/ CallRead
    \/ StreamReturn

CallSpec == CallInit /\ [][CallNext]_vars

\* ------------------------------------------- async_get_supported_voices
\* "zh-CN"
ZhCNText == <<122, 104, 45, 67, 78>>

\* "zh-CN-henan"
ZhCNHenanText == <<122, 104, 45, 67, 78, 45, 104, 101, 110, 97, 110>>

\* "zh-cn"
ZhCnLowerText == <<122, 104, 45, 99, 110>>

\* "zh"
ZhText == <<122, 104>>

\* Locales and local names of the catalogs whose voices are listed: "A", "B".
ListedLocales == {ZhCNText, ZhCNHenanText, EnUSText}

LocalNames == {<<65>>, <<66>>}

ListedCatalogs(max) ==
    UNION {{[i \in 1..n |->
                [ShortName |-> VoiceName(i), Locale |-> f[i][1],
                 LocalName |-> f[i][2], Gender |-> f[i][3]]] :
              f \in [1..n -> ListedLocales \X LocalNames \X Genders]} :
           n \in 0..max}

ListedLanguages == {ZhCNText, ZhCnLowerText, ZhText, FrFRText}

\* str.startswith(prefix)
StartsWith(s, prefix) ==
    Len(s) >= Len(prefix) /\ SubSeq(s, 1, Len(prefix)) = prefix

\* a < b for two str: the first differing code point decides, a proper
\* prefix is smaller.
RECURSIVE StrLess(_, _)
StrLess(a, b) ==
    IF b = <<>> THEN FALSE
    ELSE IF a = <<>> THEN TRUE
    ELSE IF Head(a) # Head(b) THEN Head(a) < Head(b)
    ELSE StrLess(Tail(a), Tail(b))

\* Voice(voice_id=v["ShortName"], name=f"{v['LocalName']} ({v['Gender']})")
ListedVoice(v) ==
    [voice_id |-> v.ShortName, name |-> v.LocalName \o <<32, 40>> \o v.Gender \o <<41>>]

\* list.sort(key=lambda x: x.name): v is put behind the last entry that is
\* not greater, so entries of the same name keep their order.
RECURSIVE InsertByName(_, _)
InsertByName(sorted, v) ==
    IF sorted = <<>> THEN <<v>>
    ELSE IF StrLess(v.name, sorted[Len(sorted)].name)
    THEN Append(InsertByName(SubSeq(sorted, 1, Len(sorted) - 1), v),
                sorted[Len(sorted)])
    ELSE Append(sorted, v)

RECURSIVE SortByName(_)
SortByName(voices) ==
    IF voices = <<>> THEN <<>>
    ELSE InsertByName(SortByName(SubSeq(voices, 1, Len(voices) - 1)),
                      voices[Len(voices)])

\* The list comprehension: the voices whose lower-cased Locale starts with
\* match_target, in catalog order.
RECURSIVE VoicesWithPrefix(_, _)
VoicesWithPrefix(voices, match_target) ==
    IF voices = <<>> THEN <<>>
    ELSE (IF StartsWith(Lower(Head(voices).Locale), match_target)
          THEN <<ListedVoice(Head(voices))>> ELSE <<>>)
         \o VoicesWithPrefix(Tail(voices), match_target)

\* async_get_supported_voices
async_get_supported_voices(self, language) ==
    LET azure == find_azure_locale(self, language)
        match_target == IF ~(azure.found /\ azure.locale # <<>>)
                        THEN Lower(language)
                        ELSE Lower(azure.locale)
    IN  IF self.voices_data = <<>> THEN <<>>
        ELSE SortByName(VoicesWithPrefix(self.voices_data, match_target))

\* The query is made on an entity with some catalog.
ListInit ==
    /\ \E voices \in ListedCatalogs(MaxVoices), language \in ListedLanguages :
          /\ entity = DefaultEntity(voices)
          /\ call = Call("voices", <<>>, language, NoOptions)
    /\ frame = Frame("list", Absent, <<>>, NoProsody, <<>>, 0)
    /\ ret = NoResult
    /\ built = <<>>
    /\ hass = NoCache
    /\ now = 0
    /\ fragments = <<>>
    /\ input = <<>>
    /\ sentence_buffer = <<>>
    /\ pc = "fragment"
    /\ requests = <<>>
    /\ responses = <<>>
    /\ open = {}
    /\ output = <<>>
    /\ fault = "none"

\* The callback runs to its return.
SupportedVoices ==
    /\ frame.pc = "list"
    /\ frame' = [frame EXCEPT !.pc = "returned"]
    /\ ret' = Return(Absent, async_get_supported_voices(entity, call.language))
    /\ UNCHANGED <<entity, call>>
    /\ UNCHANGED requestVars
    /\ UNCHANGED streamVars
    /\ UNCHANGED hassVars

ListNext == SupportedVoices

ListSpec == ListInit /\ [][ListNext]_vars

\* ---------------------------------------------------- voice catalog cache
\* VOICES_CACHE_TTL = 86400  # 24 hours in seconds
VOICES_CACHE_TTL == 86400

\* Subscription keys and regions callers use; the remote accepts key-A in
\* eastus and key-B in westeurope, and no other pair.
Keys == {"key-A", "key-B", "bad-key"}

Regions == {"eastus", "westeurope"}

Valid(key, region) ==
    \/ key = "key-A" /\ region = "eastus"
    \/ key = "key-B" /\ region = "westeurope"

\* What voices/list of a region answers to a key it accepts.
RemoteCatalog(region) ==
    IF region = "eastus"
    THEN <<Voice(VoiceName(1), ItITText, MaleText),
           Voice(VoiceName(2), ItITText, FemaleText)>>
    ELSE <<Voice(VoiceName(3), EnUSText, FemaleText)>>

\* cache_data is there and time.time() - cached_time < VOICES_CACHE_TTL
Fresh == hass.cached /\ now - hass.time < VOICES_CACHE_TTL

\* hass.data[DOMAIN]["voices_cache"] = (voices, time.time()).  key and
\* region are not part of the tuple: they record the request that fetched
\* the voices.
Cached(voices, key, region) ==
    [cached |-> TRUE, voices |-> voices, time |-> now, key |-> key, region |-> region]

\* A call for the catalog with a key and a region; hit tells that it was
\* served from the cache.
CatalogCall(method, key, region, hit) ==
    [method |-> method, key |-> key, region |-> region, hit |-> hit]

\* async_fetch_voices: the cache if it is fresh; otherwise a GET with the
\* entity's key and region, whose catalog is stored in the entity and in
\* the cache on status 200; any other status and any exception are logged.
FetchVoices ==
    /\ IF Fresh
       THEN /\ entity' = [entity EXCEPT !.voices_data = hass.voices]
            /\ UNCHANGED hass
       ELSE \/ /\ Valid(entity.apikey, entity.region)
               /\ entity' = [entity EXCEPT !.voices_data = RemoteCatalog(entity.region)]
               /\ hass' = Cached(RemoteCatalog(entity.region), entity.apikey,
                                 entity.region)
            \/ UNCHANGED <<entity, hass>>
    /\ UNCHANGED <<now, call, frame, ret>>
    /\ UNCHANGED requestVars
    /\ UNCHANGED streamVars

\* async_step_user with a key and a region: get_voices returns the cache if
\* it is fresh; otherwise it GETs with the key and region given, caches and
\* returns the catalog on status 200, and returns [] on any other status or
\* exception.  No voices is the error cannot_connect, voices lead to the
\* language step.
StepUser ==
    /\ \E key \in Keys, region \in Regions :
          \E fetched \in {TRUE, FALSE} :
             LET voices == IF Fresh THEN hass.voices
                           ELSE IF fetched THEN RemoteCatalog(region) ELSE <<>>
             IN  /\ fetched => (~Fresh /\ Valid(key, region))
                 /\ hass' = IF fetched THEN Cached(voices, key, region) ELSE hass
                 /\ call' = CatalogCall("get_voices", key, region, Fresh)
                 /\ ret' = Return(Absent, voices)
                 /\ frame' = [frame EXCEPT !.pc = IF voices = <<>>
                                                  THEN "cannot_connect"
                                                  ELSE "step_language"]
    /\ UNCHANGED <<entity, now>>
    /\ UNCHANGED requestVars
    /\ UNCHANGED streamVars

\* Time passes, half a TTL at a time.
Tick ==
    /\ now + VOICES_CACHE_TTL \div 2 <= MaxDays * VOICES_CACHE_TTL
    /\ now' = now + VOICES_CACHE_TTL \div 2
    /\ UNCHANGED <<hass, entity, call, frame, ret>>
    /\ UNCHANGED requestVars
    /\ UNCHANGED streamVars

\* Home Assistant starts with no cache; an entity is set up with some key
\* and region, and the setup wizard may be run with any.
CacheInit ==
    /\ \E key \in Keys, region \in Regions :
          entity = [DefaultEntity(<<>>) EXCEPT !.apikey = key, !.region = region]
    /\ call = CatalogCall("none", "", "", FALSE)
    /\ frame = Frame("idle", Absent, <<>>, NoProsody, <<>>, 0)
    /\ ret = NoResult
    /\ built = <<>>
    /\ hass = NoCache
    /\ now = 0
    /\ fragments = <<>>
    /\ input = <<>>
    /\ sentence_buffer = <<>>
    /\ pc = "fragment"
    /\ requests = <<>>
    /\ responses = <<>>
    /\ open = {}
    /\ output = <<>>
    /\ fault = "none"

CacheNext ==
    \/ StepUser
    \/ FetchVoices
    \/ Tick

CacheSpec == CacheInit /\ [][CacheNext]_vars

\* ------------------------------------- a catalog refresh during a stream
\* "10%"
TenPercentText == <<49, 48, 37>>

\* Streaming calls whose voice depends on the catalog (a language other
\* than the entity's, no explicit voice) and calls whose voice does not.
RefreshCalls ==
    {Call("stream", <<>>, language, [NoOptions EXCEPT !.voice = voice, !.rate = rate]) :
        language \in {ItItLowerText, EnUSText},
        voice \in {Absent, StrValue(ElsaText)},
        rate \in {Absent, StrValue(TenPercentText)}}

\* async_stream_tts_audio has run up to its return on an entity whose
\* catalog is the one it was set up with: voice, lang_to_use and
\* prosody_options are the locals data_gen closes over.  The cache has
\* expired, so async_fetch_voices asks the remote again.
RefreshInit ==
    /\ fragments \in Examples
    /\ input = fragments
    /\ sentence_buffer = <<>>
    /\ pc = "fragment"
    /\ requests = <<>>
    /\ responses = <<>>
    /\ open = {}
    /\ output = <<>>
    /\ fault = "none"
    /\ entity \in {DefaultEntity(<<Voice(VoiceName(1), ItITText, MaleText)>>),
                   DefaultEntity(<<>>)}
    /\ call \in RefreshCalls
    /\ frame = Frame("returned",
                     resolve_voice_and_language(entity, call.language,
                                                call.options).voice,
                     resolve_voice_and_language(entity, call.language,
                                                call.options).lang_to_use,
                     ProsodyOptions(normalize_prosody_options(entity, call.options)),
                     <<>>, 0)
    /\ ret = Return(Extension(entity), DataGenValue)
    /\ built = <<>>
    /\ hass = NoCache
    /\ now = 0

\* data_gen is suspended at an await while async_fetch_voices runs.
RefreshNext ==
    \/ Next
    \/ FetchVoices

RefreshSpec == RefreshInit /\ [][RefreshNext]_vars

\* ------------------------------------------------- closing the generator
\* Where data_gen can be suspended: waiting for a fragment, for the status
\* of a response (or the text of an error response), or for a chunk (or at
\* the yield of one).
WaitPoints == {"fragment", "status", "body", "final_status", "final_body"}

\* The consumer closes the chunk sequence, or its task is cancelled:
\* GeneratorExit or CancelledError is raised at the wait point.  Neither is
\* an Exception, so neither except clause catches it, and data_gen ends.
OnCancelContinue(at) == IF at \in {"status", "body"} THEN "scan" ELSE "cancelled"

OnCancel(at) == "cancelled"

\* The exception leaves the async with block, if data_gen is in one, which
\* closes the response.
Cancel ==
    /\ pc \in WaitPoints
    /\ pc' = OnCancel(pc)
    /\ fault' = "CancelledError"
    /\ IF cur \in open
       THEN /\ responses' = [responses EXCEPT ![cur] =
                                Response("cancelled", responses[cur].status,
                                         responses[cur].received)]
            /\ open' = Release(open, cur)
       ELSE UNCHANGED <<responses, open>>
    /\ UNCHANGED <<fragments, input, sentence_buffer, requests, built, output>>
    /\ UNCHANGED callVars
    /\ UNCHANGED hassVars

CancelNext ==
    \/ Next
    \/ Cancel

CancelSpec == Init /\ [][CancelNext]_vars

TypeOK ==
    /\ pc \in {"fragment", "scan", "status", "body", "flush", "final_status",
               "final_body", "done", "raised"}
    /\ fault \in {"none"} \cup Exceptions
    /\ Len(responses) = Len(requests)
    /\ open \subseteq 1..Len(requests)

\* ------------------------------------------------------------- properties
\* The chunks of request r in the output, in output order.
ChunksOf(r) == SelectSeq(output, LAMBDA c : c[1] = r)

\* The first n chunks of the body of request r, in the order received.
Received(r, n) == [k \in 1..n |-> <<r, k>>]

IsPrefix(a, b) == Len(a) <= Len(b) /\ a = SubSeq(b, 1, Len(a))

Before(c, d) == c[1] < d[1] \/ (c[1] = d[1] /\ c[2] < d[2])

Failed(r) == responses[r].kind \in {"status_error", "transport_error"}

\* C1: the chunks yielded by data_gen are in the order in which their
\* sentences were extracted from the input (every chunk of a sentence before
\* any chunk of a later one, the flushed remainder being the last text), and
\* within a sentence in the order received from the response body.
ChunkOrder ==
    /\ \A i, j \in 1..Len(output) : i < j => Before(output[i], output[j])
    /\ \A r \in 1..Len(requests) : ChunksOf(r) = Received(r, responses[r].received)
    /\ \A i \in 1..Len(output) : output[i][1] \in 1..Len(requests)
    /\ IsPrefix(requests, Segment(fragments))

ChunkOrderWitness ==
    /\ pc = "done"
    /\ Len(requests) >= 2
    /\ Len(Flush(sentence_buffer)) = 1
    /\ \A r \in 1..Len(requests) : responses[r].received >= 2

\* C2: a sentence answered with a non-success status contributes no chunk,
\* the step that sees the status raises nothing and goes on with the loop,
\* and once the generator is done every sentence and the remainder have been
\* requested and every completed response has all its chunks in the output.
StatusErrorSkipped ==
    /\ [](\A r \in 1..Len(requests) :
            /\ ~(responses[r].status \in {0, 200}) => ChunksOf(r) = <<>>
            /\ responses[r].kind = "status_error" => responses[r].status # 200)
    /\ [](pc = "done" =>
            /\ requests = Segment(fragments)
            /\ \A r \in 1..Len(requests) :
                 responses[r].kind = "complete"
                     => ChunksOf(r) = Received(r, responses[r].received))
    /\ [][(responses # responses' /\ Len(requests') = Len(requests)
              /\ responses'[cur].kind = "status_error")
             => pc' \in {"scan", "done"} /\ fault' = "none"]_vars

StatusErrorSkippedWitness ==
    /\ pc = "done"
    /\ Len(requests) = 3
    /\ responses[2].kind = "status_error"
    /\ responses[1].kind = "complete" /\ responses[1].received >= 1
    /\ responses[3].kind = "complete" /\ responses[3].received >= 1

\* C3 as stated: no chunk of a sentence hit by a transport fault is in the
\* output, whether the fault came before the status or while reading the
\* body.
TransportFaultOmitted ==
    \A r \in 1..Len(requests) :
        responses[r].kind = "transport_error" => ChunksOf(r) = <<>>

\* C3 amended: a transport fault before the status leaves no chunk of that
\* sentence in the output; a fault while the body is read leaves exactly the
\* chunks received before it and none after; the fault is never raised to
\* the consumer, the response is closed, and the generator still requests
\* every following sentence before it is done.
TransportFaultRecovered ==
    /\ \A r \in 1..Len(requests) :
          responses[r].kind = "transport_error" =>
              /\ responses[r].status = 0 => ChunksOf(r) = <<>>
              /\ ChunksOf(r) = Received(r, responses[r].received)
              /\ ~(r \in open)
    /\ fault # "ClientError"
    /\ pc = "done" => requests = Segment(fragments)

TransportFaultRecoveredWitness ==
    /\ pc = "done"
    /\ \E r \in 1..(Len(requests) - 1) :
          /\ responses[r].kind = "transport_error"
          /\ responses[r].received >= 1
          /\ responses[r + 1].kind = "complete"
          /\ responses[r + 1].received >= 1

\* C4: if no unexpected fault occurs, the generator eventually is done, with
\* every extracted sentence and the flushed remainder requested and every
\* response closed, whatever the sentences' outcomes were.
ReachesDone ==
    [](fault = "none") =>
        <>(pc = "done" /\ requests = Segment(fragments) /\ open = {})

ReachesDoneWitness ==
    /\ pc = "done"
    /\ Len(requests) >= 2
    /\ \A r \in 1..Len(requests) : Failed(r)
    /\ \E r \in 1..Len(requests) : responses[r].kind = "status_error"
    /\ \E r \in 1..Len(requests) : responses[r].kind = "transport_error"

\* C5: an exception that is neither a non-success status nor an
\* aiohttp.ClientError leaves data_gen (is re-raised), nothing else does, and
\* after it no request is issued and no chunk is emitted.
UnexpectedFaultFatal ==
    /\ [](pc = "raised" <=> fault # "none")
    /\ [](fault \in {"none", "Exception"})
    /\ []((\E r \in 1..Len(requests) : responses[r].kind = "internal_error")
             => pc = "raised")
    /\ [][pc = "raised" => UNCHANGED <<pc, requests, responses, output>>]_vars

UnexpectedFaultFatalWitness ==
    /\ pc = "raised"
    /\ responses # <<>>
    /\ responses[cur].kind = "internal_error"
    /\ output # <<>>
    /\ input # <<>>

\* C6: at most one response is open at any time; a request is issued, and a
\* fragment is taken from the source, only while no response is open.
OneInFlight ==
    /\ [](Cardinality(open) <= 1)
    /\ [](open # {} <=> pc \in {"status", "body", "final_status", "final_body"})
    /\ [][(requests' # requests => open = {})
            /\ (input' # input => open = {})]_vars

OneInFlightWitness ==
    /\ pc = "body"
    /\ Len(requests) = 2
    /\ open = {2}
    /\ responses[1].kind = "transport_error"
    /\ responses[1].received >= 1
    /\ input # <<>>

\* C7: a text fed one character at a time is synthesized as the same
\* sentences as the text fed all at once.
ChunkingInvariance ==
    (pc = "done" /\ fragments = Chars(Concat(fragments)))
        => requests = Segment(<<Concat(fragments)>>)

\* "Mr."
MrText == SubSeq(MrSmithText, 1, 3)

\* "Smith paid $3.50 today"
SmithText == SubSeq(MrSmithText, 5, 26)

\* C8 as stated: "Mr. Smith paid $3.50 today" fed whole gives no sentence
\* while fragments are consumed and the whole trimmed text at the flush.
MrSmithUnsplit ==
    fragments = <<MrSmithText>> =>
        /\ pc = "flush" => requests = <<>>
        /\ pc = "done" => requests = <<Strip(MrSmithText)>>

\* C8 amended: for "Mr. Smith paid $3.50 today" fed whole, the '.' of 3.50 is
\* no boundary but the '.' after Mr, followed by a space, is one: the loop
\* extracts "Mr." and the flush gives "Smith paid $3.50 today".
MrSmithSplitAfterMr ==
    fragments = <<MrSmithText>> =>
        /\ pc = "flush" => requests = <<MrText>> /\ sentence_buffer = SmithText
        /\ pc = "done" => requests = <<MrText, SmithText>>

MrSmithWitness == fragments = <<MrSmithText>> /\ pc = "done"

\* "Hello world."
HelloWorldText == SubSeq(HelloText, 1, 12)

\* "How are you?"
HowAreYouText == SubSeq(HelloText, 14, 25)

\* C9: whenever the loop waits for a fragment or has ended, the buffer holds
\* no terminal mark that is followed by whitespace or ends the buffer; and
\* "Hello world. How are you?" fed whole gives "Hello world." and
\* "How are you?" with an empty buffer left for the flush.
SplitAtWhitespaceOrEnd ==
    /\ pc \in {"fragment", "flush"} =>
          \A i \in 1..Len(sentence_buffer) :
              sentence_buffer[i] \in TerminalMarks =>
                  /\ i # Len(sentence_buffer)
                  /\ ~IsSpace(sentence_buffer[i + 1])
    /\ fragments = <<HelloText>> /\ pc \in {"flush", "done"} =>
          /\ requests = <<HelloWorldText, HowAreYouText>>
          /\ sentence_buffer = <<>>

HelloWitness ==
    /\ fragments = <<HelloText>>
    /\ pc = "done"
    /\ Len(requests) = 2

\* C10: whenever the loop waits for a fragment or has ended, the buffer
\* holds no terminal mark immediately followed by a CJK or Hangul character;
\* and the CJK example fed whole gives its first sentence from the loop and
\* the rest from the flush.
SplitBeforeCJK ==
    /\ pc \in {"fragment", "flush"} =>
          \A i \in 1..(Len(sentence_buffer) - 1) :
              sentence_buffer[i] \in TerminalMarks =>
                  ~IsCJK(sentence_buffer[i + 1])
    /\ fragments = <<CJKText>> =>
          /\ pc = "flush" => /\ requests = <<SubSeq(CJKText, 1, 3)>>
                             /\ sentence_buffer = SubSeq(CJKText, 4, 9)
          /\ pc = "done" =>
                requests = <<SubSeq(CJKText, 1, 3), SubSeq(CJKText, 4, 9)>>

CJKWitness ==
    /\ fragments = <<CJKText>>
    /\ pc = "done"
    /\ responses[2].kind = "complete"

\* ------------------------------------------------- properties of the calls
\* The call has resolved its voice and language.
Resolved == frame.pc # "resolve"

\* The call has its normalized prosody options.
Normalized == frame.pc \notin {"resolve", "normalize"} /\ frame.prosody_options # NoProsody

\* _build_ssml has just returned the call's document.
Built == call.method = "get" /\ frame.pc = "post"

\* The request of async_get_tts_audio has ended.
Answered == call.method = "get" /\ requests # <<>> /\ responses[1].kind # "open"

Least(S) == CHOOSE i \in S : \A j \in S : i <= j

\* The raw value of an option: service call, then config options, then the
\* default of the code.
Raw(key, default) == Get(call.options, key, Get(entity.options, key, default))

\* C11: async_get_tts_audio does not raise on a remote or transport fault.
\* When its request ended with a status other than 200 or with a transport
\* fault (aiohttp.ClientError, also one raised while the body or the error
\* text is read), the call returned (None, None); when the body was read to
\* its end it returned ("mp3", the whole body); and it raised only for a
\* fault that is neither of the two.
GetAllOrNothing ==
    Answered =>
        /\ responses[1].kind \in {"status_error", "transport_error"}
              => ret = Return(NoneValue, NoneValue)
        /\ responses[1].kind = "complete"
              => /\ ret = Return(StrValue(Mp3Text), BytesValue(frame.body))
                 /\ responses[1].received = frame.body
        /\ ret.kind = "raise" => responses[1].kind = "internal_error"

\* A transport fault interrupts the reading of the body after a chunk, and
\* the call returns (None, None).
GetAllOrNothingWitness ==
    /\ Answered
    /\ responses[1].kind = "transport_error"
    /\ responses[1].status = 200
    /\ responses[1].received > 0
    /\ ret = Return(NoneValue, NoneValue)

\* The catalog entries of the resolved locale, and the female ones of them.
OfLocale == {i \in 1..Len(entity.voices_data) :
                entity.voices_data[i].Locale = frame.lang_to_use}

FemaleOfLocale == {i \in OfLocale : entity.voices_data[i].Gender = FemaleText}

\* The requested language has an entry in the catalog, whatever its case.
InCatalog == \E i \in 1..Len(entity.voices_data) :
                Lower(entity.voices_data[i].Locale) = Lower(call.language)

\* The case of the smart fallback: no explicit voice, a language other than
\* the default one, and a catalog entry for it.
FallbackCase ==
    /\ Resolved
    /\ call.options.voice = Absent
    /\ Lower(call.language) # Lower(entity.language)
    /\ InCatalog

\* C12: in the fallback case the resolver returns the first female voice of
\* the locale in catalog order if there is one, and otherwise the first
\* voice of the locale in catalog order.
FallbackFirstOfLocale ==
    FallbackCase =>
        frame.voice = StrValue(entity.voices_data[
                          IF FemaleOfLocale # {} THEN Least(FemaleOfLocale)
                          ELSE Least(OfLocale)].ShortName)

\* C13: the locale the resolver returns is the Locale of a catalog entry that
\* equals the requested tag up to case if there is such an entry, and
\* otherwise the requested tag as given.
LocaleFromCatalog ==
    Resolved =>
        IF InCatalog
        THEN \E i \in 1..Len(entity.voices_data) :
                /\ Lower(entity.voices_data[i].Locale) = Lower(call.language)
                /\ frame.lang_to_use = entity.voices_data[i].Locale
        ELSE frame.lang_to_use = call.language

\* "it-it" is requested and the catalog's "it-IT" is returned.
LocaleFromCatalogWitness ==
    /\ Resolved
    /\ call.language = ItItLowerText
    /\ InCatalog
    /\ frame.lang_to_use = ItITText

\* C14: an explicit voice is returned unchanged whatever the language and
\* the catalog; without one, a request in the default language (up to case)
\* gets the configured default voice.
ExplicitOrDefaultVoice ==
    Resolved =>
        /\ call.options.voice # Absent => frame.voice = call.options.voice
        /\ (call.options.voice = Absent
              /\ Lower(call.language) = Lower(entity.language))
              => frame.voice = entity.default_voice

\* An explicit voice is kept although the requested language is another
\* than the default one and the catalog has voices for it.
ExplicitOrDefaultVoiceWitness ==
    /\ Resolved
    /\ call.options.voice = StrValue(ElsaText)
    /\ Lower(call.language) # Lower(entity.language)
    /\ InCatalog
    /\ frame.voice = StrValue(ElsaText)

\* The raw rate is a number of absolute value in [0.1, 3.0].
RawRate == Raw("rate", StrValue(ZeroPercentText))

RateInRange ==
    /\ RawRate.t \in {"int", "float"}
    /\ 10 * Abs(RawRate.n) >= RawRate.d
    /\ Abs(RawRate.n) <= 3 * RawRate.d

\* C15: a float or int rate of absolute value in [0.1, 3.0] becomes the
\* signed percentage round((value - 1.0) * 100) with an explicit sign and a
\* trailing '%'; an int outside that range becomes "{value}%"; no rate at all
\* gives "0%".
RateRounded ==
    Normalized =>
        /\ RateInRange
              => frame.prosody_options.rate =
                    StrValue(SignedPercent(Round((RawRate.n - RawRate.d) * 100,
                                                 RawRate.d)))
        /\ (RawRate.t = "int" /\ ~RateInRange)
              => frame.prosody_options.rate = StrValue(IntToStr(RawRate.n) \o <<37>>)
        /\ (call.options.rate = Absent /\ entity.options.rate = Absent)
              => frame.prosody_options.rate = StrValue(ZeroPercentText)

\* A pitch Azure accepts: one of the names, whatever its case, or a string
\* ending in '%' or 'Hz'.
AcceptedPitch(p) ==
    /\ p.t = "str"
    /\ \/ Lower(p.s) \in {<<120, 45, 108, 111, 119>>, <<108, 111, 119>>,
                          <<109, 101, 100, 105, 117, 109>>, <<104, 105, 103, 104>>,
                          <<120, 45, 104, 105, 103, 104>>,
                          <<100, 101, 102, 97, 117, 108, 116>>}
       \/ EndsWith(p.s, <<37>>)
       \/ EndsWith(p.s, <<72, 122>>)

RawPitch == Raw("pitch", StrValue(DefaultText))

\* C16: whatever the raw pitch is, string or not, the normalized pitch is an
\* accepted one: an accepted raw pitch unchanged, "default" for any other.
PitchAccepted ==
    Normalized =>
        /\ AcceptedPitch(frame.prosody_options.pitch)
        /\ frame.prosody_options.pitch =
              IF AcceptedPitch(RawPitch) THEN RawPitch
              ELSE StrValue(<<100, 101, 102, 97, 117, 108, 116>>)

RawDegree == Raw("styledegree", StrValue(OneText))

\* The raw style degree parses as a number in [0.01, 2.0].
DegreeParsesInRange ==
    LET f == ToFloat(RawDegree)
    IN  f.exc = "none" /\ f.kind = "num" /\ 100 * f.n >= f.d /\ f.n <= 2 * f.d

\* C17 as stated: every raw style degree that does not parse as a number or
\* lies outside [0.01, 2.0], zero included, becomes "1", and one that parses
\* inside the range is returned unchanged.
DegreeAlwaysValidated ==
    Normalized =>
        frame.prosody_options.style_degree =
            IF DegreeParsesInRange THEN RawDegree ELSE StrValue(<<49>>)

\* C17: a raw style degree that is truthy (a non-empty string, a number
\* other than zero, a non-empty list) becomes "1" unless it parses as a
\* number in [0.01, 2.0], in which case it is returned unchanged; a falsy one
\* (empty string, 0, 0.0, None) is returned unchanged without validation.
DegreeValidatedIfTruthy ==
    Normalized =>
        frame.prosody_options.style_degree =
            IF Truthy(RawDegree) /\ ~DegreeParsesInRange
            THEN StrValue(<<49>>)
            ELSE RawDegree

\* "5" has become "1".
DegreeValidatedIfTruthyWitness ==
    /\ Normalized
    /\ RawDegree = StrValue(<<53>>)
    /\ frame.prosody_options.style_degree = StrValue(<<49>>)

\* C18: the normalizer never raises: once the call is past it, the call has
\* not ended with an exception before its request, and it holds the six
\* values rate, pitch, volume, style, style_degree, role.
NormalizerTotal ==
    frame.pc \notin {"resolve", "normalize"} =>
        /\ ret.kind = "raise" => requests # <<>>
        /\ \A k \in {"rate", "pitch", "volume", "style", "style_degree", "role"} :
              frame.prosody_options[k] # Absent

\* The escaped form of one character of the text.
EscapedChar(c) ==
    CASE c = 38 -> <<38, 97, 109, 112, 59>>
      [] c = 60 -> <<38, 108, 116, 59>>
      [] c = 62 -> <<38, 103, 116, 59>>
      [] c = 34 -> <<38, 113, 117, 111, 116, 59>>
      [] OTHER -> <<c>>

Escaped(text) == Concat([i \in 1..Len(text) |-> EscapedChar(text[i])])

\* pat occurs in doc at position i.
Occurs(doc, pat, i) ==
    /\ i + Len(pat) - 1 <= Len(doc)
    /\ doc[i] = pat[1]
    /\ SubSeq(doc, i, i + Len(pat) - 1) = pat

Greatest(S) == CHOOSE i \in S : \A j \in S : j <= i

\* The content of the prosody element of a document: what lies between the
\* end of the first <prosody ...> tag and the last </prosody>.
ProsodyContent(doc) ==
    LET tag == Least({i \in 1..Len(doc) : Occurs(doc, ProsodyOpenText, i)})
        from == Least({i \in tag..Len(doc) : doc[i] = 62}) + 1
        to == Greatest({i \in 1..Len(doc) : Occurs(doc, ProsodyCloseText, i)})
    IN  SubSeq(doc, from, to - 1)

\* C19: the content of the prosody element of the document is the text with
\* every '&', '<', '>' and '"' replaced by &amp;, &lt;, &gt; and &quot; and
\* every other character unchanged, in the order of the text.
TextEscaped ==
    Built => ProsodyContent(frame.xml_doc) = Escaped(call.message)

\* A text with '<' and '&' has been put into a document.
TextEscapedWitness ==
    /\ Built
    /\ call.message = <<60, 38>>
    /\ ProsodyContent(frame.xml_doc) = <<38, 108, 116, 59, 38, 97, 109, 112, 59>>

\* C20: a call that returns audio returns it with the tag "mp3", whatever
\* output format profile is configured.
AlwaysMp3 ==
    (ret.kind = "return" /\ ret.data # NoneValue)
        => ret.extension = StrValue(<<109, 112, 51>>)

\* A call has returned audio on an entity configured for mu-law, with
\* the tag "mp3".
AlwaysMp3Witness ==
    /\ entity.output_format = "raw-8khz-8bit-mono-mulaw"
    /\ ret.kind = "return"
    /\ ret.data # NoneValue
    /\ ret.extension = StrValue(<<109, 112, 51>>)

\* ---------------------------------------------- properties of the listing
\* The catalog positions whose Locale equals the requested language up to
\* case, and those whose lower-cased Locale starts with the lower-cased
\* language.
ExactPositions ==
    {i \in 1..Len(entity.voices_data) :
        Lower(entity.voices_data[i].Locale) = Lower(call.language)}

PrefixPositions ==
    {i \in 1..Len(entity.voices_data) :
        StartsWith(Lower(entity.voices_data[i].Locale), Lower(call.language))}

Listed == frame.pc = "returned" /\ call.method = "voices"

\* C21: the listed voices are those of the requested locale when the catalog
\* has an entry of that locale (up to case), and those whose locale starts
\* with the lower-cased language only when it has none; the list is in
\* ascending order of the display names; an empty catalog gives an empty
\* list.
ListsExactLocaleFirst ==
    Listed =>
        /\ {ret.data[i].voice_id : i \in 1..Len(ret.data)} =
              {entity.voices_data[i].ShortName :
                  i \in (IF ExactPositions # {} THEN ExactPositions
                         ELSE PrefixPositions)}
        /\ \A i \in 1..Len(ret.data) - 1 :
              ~StrLess(ret.data[i + 1].name, ret.data[i].name)
        /\ entity.voices_data = <<>> => ret.data = <<>>

\* ------------------------------------------- properties of the cancellation
\* C22: when the consumer closes the chunk sequence while data_gen waits for
\* a fragment, a response status or a chunk, data_gen has stopped, no
\* request is open any more, and no request is issued from then on.
CancelStops ==
    [][/\ fault' = "CancelledError" =>
            /\ pc' = "cancelled"
            /\ open' = {}
            /\ \A r \in 1..Len(responses') : responses'[r].kind # "open"
       /\ fault = "CancelledError" => requests' = requests]_vars

\* The sequence was closed while the chunks of a sentence were arriving and
\* more text was waiting in the buffer; the request is closed.
CancelStopsWitness ==
    /\ pc = "cancelled"
    /\ requests # <<>>
    /\ responses[cur].kind = "cancelled"
    /\ responses[cur].received > 0
    /\ sentence_buffer # <<>>
    /\ open = {}

\* ------------------------------------------------- properties of the cache
\* C27: a catalog served from the cache was fetched with the key and region
\* of the caller it is served to: the wizard's get_voices is served from the
\* cache only if the cache was filled with its key and region, and the
\* catalog an entity holds is the one the remote gives to its key and region.
CacheKeyedByAccount ==
    /\ (call.method = "get_voices" /\ call.hit)
          => (hass.key = call.key /\ hass.region = call.region)
    /\ entity.voices_data # <<>>
          => /\ Valid(entity.apikey, entity.region)
             /\ entity.voices_data = RemoteCatalog(entity.region)

\* C23: voice, locale and normalized options are resolved once at the start
\* of a streaming call: every request of the call, for a sentence or for the
\* final remainder, carries the voice, locale and options the call resolved
\* at its start, so all requests carry the same ones, also when
\* async_fetch_voices replaces the entity's catalog between two requests.
ResolvedOnce ==
    /\ Len(built) = Len(requests)
    /\ \A i \in 1..Len(built) :
          /\ built[i] = built[1]
          /\ built[i].voice = frame.voice
          /\ built[i].language = frame.lang_to_use
          /\ built[i].prosody_options = frame.prosody_options

\* Two requests with different texts were issued, and the catalog was
\* replaced by one in which the call would now resolve to another voice.
ResolvedOnceWitness ==
    /\ Len(built) >= 2
    /\ requests[1] # requests[2]
    /\ hass.cached
    /\ entity.voices_data = RemoteCatalog(entity.region)
    /\ resolve_voice_and_language(entity, call.language, call.options).voice
          # built[2].voice

\* The fragments data_gen has taken from message_gen so far.
Consumed == SubSeq(fragments, 1, Len(fragments) - Len(input))

\* data_gen is in the loop over the fragments, or has just left it.
Consuming == pc \in {"fragment", "scan", "status", "body", "flush"}

\* C24: while the fragments are consumed, the requests issued so far are
\* exactly the non-empty sentences extracted so far, one request each and in
\* extraction order: together with the sentences still to be extracted from
\* the buffer they are the sentences of the consumed text.  No request has
\* an empty text, a failed request is not issued again, and while a request
\* is in flight it is the only open one: the next sentence is extracted
\* only after it.
OneRequestPerSentence ==
    Consuming =>
        /\ requests \o Extract(sentence_buffer).sentences
              = Feed(<<>>, Consumed).sentences
        /\ \A i \in 1..Len(requests) : requests[i] # <<>>
        /\ pc \in {"status", "body"} => open = {Len(requests)}
        /\ pc \in {"fragment", "flush"} =>
              /\ open = {}
              /\ requests = Feed(<<>>, Consumed).sentences

\* All fragments are consumed, at least two sentences were extracted and
\* requested, and the request of the first one failed.
OneRequestPerSentenceWitness ==
    /\ pc = "flush"
    /\ Len(requests) >= 2
    /\ Failed(1)
    /\ requests = Feed(<<>>, fragments).sentences

\* The sentences and the remainder of the whole input, and the number the
\* request of the remainder has: it comes after those of all sentences.
Whole == Feed(<<>>, fragments)

Final == Len(Whole.sentences) + 1

\* The final block of data_gen was entered and has posted the remainder.
FinalPosted == Len(requests) = Final

\* C25 as stated: when the input ends, the trimmed remainder is requested
\* once, after all sentences, if and only if it is non-empty; its chunks
\* are emitted on success and none of them is in the output after a
\* non-success status or a transport fault, and the stream ends normally.
FinalFaultOmitted ==
    /\ pc \in {"final_status", "final_body", "done"} =>
          requests = Whole.sentences \o Flush(Whole.buffer)
    /\ FinalPosted =>
          /\ responses[Final].kind = "complete" =>
                /\ ChunksOf(Final) = Received(Final, responses[Final].received)
                /\ pc = "done" /\ fault = "none"
          /\ Failed(Final) =>
                /\ ChunksOf(Final) = <<>>
                /\ pc = "done" /\ fault = "none"

\* C25, amended: when the input ends, the trimmed remainder is requested
\* once, after all sentences, if and only if it is non-empty.  On status 200
\* its chunks are emitted as they are received; on another status none is
\* emitted; a transport fault before the status leaves none and a transport
\* fault while the body is read leaves those received before it.  In each
\* of these cases the stream ends normally.
FinalRequest ==
    /\ Len(requests) <= Final
    /\ pc \in {"final_status", "final_body", "done"} =>
          requests = Whole.sentences \o Flush(Whole.buffer)
    /\ pc \in {"final_status", "final_body"} => FinalPosted /\ open = {Final}
    /\ FinalPosted =>
          /\ input = <<>>
          /\ requests[Final] = Strip(Whole.buffer)
          /\ requests[Final] # <<>>
          /\ ChunksOf(Final) = Received(Final, responses[Final].received)
          /\ responses[Final].status # 200 => ChunksOf(Final) = <<>>
          /\ responses[Final].kind = "complete" => responses[Final].status = 200
          /\ responses[Final].kind = "status_error" => responses[Final].status # 200
          /\ responses[Final].kind \in {"complete", "status_error", "transport_error"}
                => pc = "done" /\ fault = "none"

\* The remainder was requested after a sentence, chunks of its body were
\* emitted, a transport fault ended the body and the stream ended normally.
FinalRequestWitness ==
    /\ FinalPosted
    /\ Final >= 2
    /\ responses[Final].kind = "transport_error"
    /\ responses[Final].received >= 1
    /\ ChunksOf(Final) # <<>>
    /\ pc = "done"

\* ------------------------------------------- reading a document's elements
\* The first position from i on that holds one of the stop characters, or
\* the position after the end.
RECURSIVE ScanTo(_, _, _)
ScanTo(doc, i, stops) ==
    IF i > Len(doc) \/ doc[i] \in stops THEN i ELSE ScanTo(doc, i + 1, stops)

\* The attributes of the tag whose name ends before position i: their names
\* in order, the position after the tag's '>', and whether the tag is
\* well formed (name='value' or name="value" separated by spaces, no '<' in
\* a value).
RECURSIVE Attributes(_, _)
Attributes(doc, i) ==
    IF i > Len(doc) THEN [names |-> <<>>, next |-> i, ok |-> FALSE]
    ELSE IF doc[i] = 32 THEN Attributes(doc, i + 1)
    ELSE IF doc[i] = 62 THEN [names |-> <<>>, next |-> i + 1, ok |-> TRUE]
    ELSE LET eq == ScanTo(doc, i, {61, 62, 32})
             quoted == /\ eq + 1 <= Len(doc)
                       /\ doc[eq] = 61
                       /\ doc[eq + 1] \in {39, 34}
         IN  IF ~quoted
             THEN [names |-> <<SubSeq(doc, i, eq - 1)>>, next |-> Len(doc) + 1,
                   ok |-> FALSE]
             ELSE LET q == ScanTo(doc, eq + 2, {doc[eq + 1], 60})
                      closed == /\ q + 1 <= Len(doc)
                                /\ doc[q] = doc[eq + 1]
                                /\ doc[q + 1] \in {32, 62}
                      rest == Attributes(doc, q + 1)
                  IN  IF ~closed
                      THEN [names |-> <<SubSeq(doc, i, eq - 1)>>,
                            next |-> Len(doc) + 1, ok |-> FALSE]
                      ELSE [names |-> <<SubSeq(doc, i, eq - 1)>> \o rest.names,
                            next |-> rest.next, ok |-> rest.ok]

\* The tags of a document from position i on, in order: opening or closing,
\* with name and attribute names; reading stops at a malformed tag.
RECURSIVE Tags(_, _)
Tags(doc, i) ==
    IF i > Len(doc) THEN <<>>
    ELSE IF doc[i] # 60 THEN Tags(doc, ScanTo(doc, i, {60}))
    ELSE LET closing == i + 1 <= Len(doc) /\ doc[i + 1] = 47
             from == IF closing THEN i + 2 ELSE i + 1
             end == ScanTo(doc, from, {32, 62})
             attrs == Attributes(doc, end)
         IN  <<[name |-> SubSeq(doc, from, end - 1), closing |-> closing,
                attrs |-> attrs.names, ok |-> attrs.ok]>>
                \o (IF attrs.ok THEN Tags(doc, attrs.next) ELSE <<>>)

OpenTag(name, attrs) == [name |-> name, closing |-> FALSE, attrs |-> attrs, ok |-> TRUE]

CloseTag(name) == [name |-> name, closing |-> TRUE, attrs |-> <<>>, ok |-> TRUE]

\* speak, voice, mstts:express-as, prosody
SpeakName == <<115, 112, 101, 97, 107>>

VoiceTagName == <<118, 111, 105, 99, 101>>

ExpressAsName ==
    <<109, 115, 116, 116, 115, 58, 101, 120, 112, 114, 101, 115, 115, 45, 97, 115>>

ProsodyName == <<112, 114, 111, 115, 111, 100, 121>>

\* version, xmlns:mstts, xml:lang, name
VersionAttr == <<118, 101, 114, 115, 105, 111, 110>>

XmlnsAttr == <<120, 109, 108, 110, 115, 58, 109, 115, 116, 116, 115>>

XmlLangAttr == <<120, 109, 108, 58, 108, 97, 110, 103>>

NameAttr == <<110, 97, 109, 101>>

\* style, role, styledegree
StyleAttr == <<115, 116, 121, 108, 101>>

RoleAttr == <<114, 111, 108, 101>>

StyleDegreeAttr == <<115, 116, 121, 108, 101, 100, 101, 103, 114, 101, 101>>

\* rate, pitch, volume
RateAttr == <<114, 97, 116, 101>>

PitchAttr == <<112, 105, 116, 99, 104>>

VolumeAttr == <<118, 111, 108, 117, 109, 101>>

\* The tags of the fixed structure for the given normalized options.
StructureOf(options) ==
    LET wrapped == Truthy(options.style)
    IN  <<OpenTag(SpeakName, <<VersionAttr, XmlnsAttr, XmlLangAttr>>),
          OpenTag(VoiceTagName, <<XmlLangAttr, NameAttr>>)>>
        \o (IF wrapped
            THEN <<OpenTag(ExpressAsName,
                           <<StyleAttr>>
                           \o (IF Truthy(options.role) THEN <<RoleAttr>> ELSE <<>>)
                           \o (IF Truthy(options.style_degree)
                               THEN <<StyleDegreeAttr>> ELSE <<>>))>>
            ELSE <<>>)
        \o <<OpenTag(ProsodyName, <<RateAttr, PitchAttr, VolumeAttr>>),
             CloseTag(ProsodyName)>>
        \o (IF wrapped THEN <<CloseTag(ExpressAsName)>> ELSE <<>>)
        \o <<CloseTag(VoiceTagName), CloseTag(SpeakName)>>

\* C26: the document has the fixed element structure: a speak root
\* (version, mstts namespace, locale) containing a voice element (locale,
\* voice id) containing the prosody element (rate, pitch, volume) around
\* the text; an mstts:express-as element around prosody if and only if the
\* style option is non-empty, with a role attribute only when role is
\* non-empty and a styledegree attribute only when the style degree is
\* non-empty; every element is closed in reverse order of opening.
FixedStructure ==
    Built => Tags(frame.xml_doc, 1) = StructureOf(frame.prosody_options)

\* front can be cut into consecutive pieces, one per sentence and in order,
\* each of which is its sentence once leading and trailing whitespace is
\* removed.
RECURSIVE Covers(_, _)
Covers(front, sentences) ==
    IF sentences = <<>> THEN front = <<>>
    ELSE \E k \in 1..Len(front) :
            /\ Strip(SubSeq(front, 1, k)) = Head(sentences)
            /\ Covers(SubSeq(front, k + 1, Len(front)), Tail(sentences))

\* The sentences extracted so far: every request but that of the remainder,
\* which is not cut from the buffer.
Extracted ==
    IF FinalPosted THEN SubSeq(requests, 1, Len(requests) - 1) ELSE requests

\* C28: at every point of a streaming call the text cut from the front of
\* the buffer followed by the buffer is the concatenation of the fragments
\* received so far: the buffer is the end of that text, and the part before
\* it is cut into the extracted sentences, in order, each differing from
\* its cut only by leading and trailing whitespace.  Nothing is lost,
\* duplicated or reordered.
TextConserved ==
    LET text == Concat(Consumed)
        kept == Len(text) - Len(sentence_buffer)
    IN  /\ kept >= 0
        /\ SubSeq(text, kept + 1, Len(text)) = sentence_buffer
        /\ Covers(SubSeq(text, 1, kept), Extracted)

\* "Hello world. " was cut from the buffer and requested without its
\* trailing space, and "How are you?" is what the buffer holds.
TextConservedWitness ==
    /\ Consumed = <<HelloText>>
    /\ requests = <<HelloWorldText>>
    /\ sentence_buffer = HowAreYouText
    /\ Len(Concat(Consumed)) > Len(requests[1]) + Len(sentence_buffer)

====
